---- MODULE Spec2Model ----
(***************************************************************************)
(* Index generators of the Institut du Couple site.                        *)
(*                                                                         *)
(*   scripts/generate_all_indexes.py  the recursive generator              *)
(*   generate_module_indexes.py       the flat, fixed-module generator     *)
(*                                                                         *)
(* A run of either script is a sequence of steps over one filesystem tree: *)
(* the scan enumerates entries, the generator writes index.html pages.     *)
(* File names, paths and link targets are strings, handled character by    *)
(* character where the code does so (lower-casing, comparison, suffix,     *)
(* URL escaping).                                                          *)
(***************************************************************************)
EXTENDS Integers, Sequences, FiniteSets, TLC

VARIABLES
    variant,       \* which script runs: "recursive" or "flat"
    rootDir,       \* recursive: the parts of Path.cwd(), the absolute root
    fsDirs,        \* the directories below the root (root-relative paths)
    fsFiles,       \* the regular files below the root: path -> size in bytes
    pc,            \* position of the run
    todo,          \* recursive scan: entries rglob has not yielded yet
    scanFiles,     \* DirectoryScanner.files: list of FileInfo
    scanDirs,      \* DirectoryScanner.directories: set of absolute paths
    dirsLeft,      \* generate_all: directories not yet iterated
    modIdx,        \* flat main: index in MODULES of the next module
    modulesData,   \* flat main: all_modules_data
    pages,         \* pages written by this run: path -> rendered page
    writes,        \* paths written by this run, in order
    error,         \* the exception that ended the run, or "none"
    run,           \* number of the current run on this tree
    prevPages,     \* pages written by the previous run on this tree
    docs,          \* the content of the HTML files of the tree: path -> document
    vanish,        \* files that disappear during the run: path -> when
    fmtSize,       \* format_size check: the size, base-1024 digits, low first
    fmtOut         \* format_size check: what the two implementations return

vars == <<variant, rootDir, fsDirs, fsFiles, pc, todo, scanFiles, scanDirs,
          dirsLeft, modIdx, modulesData, pages, writes, error, run, prevPages,
          docs, vanish, fmtSize, fmtOut>>

genVars == <<variant, rootDir, fsDirs, fsFiles, pc, todo, scanFiles, scanDirs,
             dirsLeft, modIdx, modulesData, pages, writes, error, run, prevPages,
             docs, vanish>>

\* What a run finds and does not change: file contents, disappearances.
envVars == <<docs, vanish>>

fmtVars == <<fmtSize, fmtOut>>

(***************************************************************************)
(* Bounds of the model.                                                    *)
(***************************************************************************)
\* Largest number of entries (directories and files) in a tree.
MaxEntries == 4
\* Number of successive runs of a script on one tree.
MaxRuns == 2
\* Number of base-1024 digits of the sizes given to format_size.
MaxSizeDigits == 5
\* Largest number of entries in a tree of the runs that look at file content.
MaxInfoEntries == 3

(***************************************************************************)
(* Strings: Python str operations, character by character.                 *)
(***************************************************************************)
DIGITS == "0123456789"
UPPERCASE == "ABCDEFGHIJKLMNOPQRSTUVWXYZ"
LOWERCASE == "abcdefghijklmnopqrstuvwxyz"
\* Code points of the other characters that occur in names and links.
PunctOrd == (" " :> 32) @@ ("#" :> 35) @@ ("%" :> 37) @@ ("-" :> 45)
            @@ ("." :> 46) @@ ("/" :> 47) @@ (":" :> 58) @@ ("_" :> 95)
            @@ ("~" :> 126)

CharAt(s, i) == SubSeq(s, i, i)
CharsOf(s) == {CharAt(s, i) : i \in 1..Len(s)}
\* Position of a character in a string that holds it once.
PosIn(s, c) == CHOOSE i \in 1..Len(s) : CharAt(s, i) = c

\* str.find(c) + 1: the position of the first occurrence of c in s, 0 when absent
\* The position of the first occurrence of c in s at or after i, 0 when absent.
RECURSIVE IndexFrom(_, _, _)
IndexFrom(s, c, i) ==
    IF i > Len(s) THEN 0
    ELSE IF CharAt(s, i) = c THEN i
    ELSE IndexFrom(s, c, i + 1)

Index(s, c) == IndexFrom(s, c, 1)

OrdTable ==
    [c \in CharsOf(DIGITS) |-> 47 + PosIn(DIGITS, c)]
    @@ [c \in CharsOf(UPPERCASE) |-> 64 + PosIn(UPPERCASE, c)]
    @@ [c \in CharsOf(LOWERCASE) |-> 96 + PosIn(LOWERCASE, c)]
    @@ PunctOrd

\* ord(c)
Ord(c) == OrdTable[c]

\* Comparison of two str values, as sorted() compares keys: by code point,
\* a proper prefix first.
RECURSIVE StrLess(_, _)
StrLess(a, b) ==
    IF Len(b) = 0 THEN FALSE
    ELSE IF Len(a) = 0 THEN TRUE
    ELSE IF CharAt(a, 1) = CharAt(b, 1)
         THEN StrLess(SubSeq(a, 2, Len(a)), SubSeq(b, 2, Len(b)))
         ELSE Ord(CharAt(a, 1)) < Ord(CharAt(b, 1))

LowerTable == [c \in CharsOf(UPPERCASE) |-> CharAt(LOWERCASE, PosIn(UPPERCASE, c))]

\* str.lower() of one character
LowerChar(c) == IF c \in DOMAIN LowerTable THEN LowerTable[c] ELSE c

\* str.lower()
RECURSIVE StrLower(_)
StrLower(s) ==
    IF Len(s) = 0 THEN ""
    ELSE LowerChar(CharAt(s, 1)) \o StrLower(SubSeq(s, 2, Len(s)))

\* str.startswith
StartsWith(s, p) == Len(p) <= Len(s) /\ SubSeq(s, 1, Len(p)) = p

\* str.strip(), for text whose only white space is the space character
RECURSIVE LStrip(_)
LStrip(s) ==
    IF Len(s) > 0 /\ CharAt(s, 1) = " " THEN LStrip(SubSeq(s, 2, Len(s))) ELSE s

RECURSIVE RStrip(_)
RStrip(s) ==
    IF Len(s) > 0 /\ CharAt(s, Len(s)) = " " THEN RStrip(SubSeq(s, 1, Len(s) - 1)) ELSE s

Strip(s) == RStrip(LStrip(s))

\* s[:n]
Truncate(s, n) == IF Len(s) <= n THEN s ELSE SubSeq(s, 1, n)

\* `sub in s` for two str values
Contains(s, sub) ==
    \E i \in 1..(Len(s) - Len(sub) + 1) : SubSeq(s, i, i + Len(sub) - 1) = sub

\* Position of the last occurrence of character c in s, 0 when absent.
\* The position of the last occurrence of c in s at or before i, 0 when absent.
RECURSIVE LastIndexFrom(_, _, _)
LastIndexFrom(s, c, i) ==
    IF i = 0 THEN 0
    ELSE IF CharAt(s, i) = c THEN i
    ELSE LastIndexFrom(s, c, i - 1)

LastIndex(s, c) == LastIndexFrom(s, c, Len(s))

\* Path.suffix and os.path.splitext(p)[1]: from the last dot on, empty when the
\* name has no dot or only leading dots.
Suffix(name) ==
    CHOOSE suffix \in
        {IF i = 0 \/ (\A j \in 1..(i-1) : CharAt(name, j) = ".") THEN ""
         ELSE SubSeq(name, i, Len(name)) : i \in {LastIndex(name, ".")}} : TRUE

\* sep.join(parts)
RECURSIVE Join(_, _)
Join(parts, sep) ==
    IF Len(parts) = 0 THEN ""
    ELSE IF Len(parts) = 1 THEN parts[1]
    ELSE parts[1] \o sep \o Join(Tail(parts), sep)

\* s.split(sep) for a one-character separator
RECURSIVE Split(_, _)
Split(s, sep) ==
    CHOOSE parts \in
        {IF i = 0 THEN <<s>>
         ELSE <<SubSeq(s, 1, i - 1)>> \o Split(SubSeq(s, i + 1, Len(s)), sep) :
            i \in {Index(s, sep)}} : TRUE

(***************************************************************************)
(* sorted(items, key=...): a stable sort; items are records with a field   *)
(* key holding the sort key.                                               *)
(***************************************************************************)
\* The orders in which the members of a set may come.
RECURSIVE Orders(_)
Orders(names) ==
    IF names = {} THEN {<<>>}
    ELSE UNION {{<<n>> \o q : q \in Orders(names \ {n})} : n \in names}

\* A list with its items evaluated: the same sequence, as a tuple. (A value
\* that a definition uses more than once is bound once, as the member of a
\* one-element set: CHOOSE r \in {e(x) : x \in {v}} : TRUE is e(v).)
AsList(items) == <<>> \o items

\* The position of items[i] in the sorted list: after every item with a
\* smaller key and after the items with an equal key that precede it.
SortedPosition(items, i) ==
    Cardinality({j \in DOMAIN items :
                    \/ StrLess(items[j].key, items[i].key)
                    \/ (items[j].key = items[i].key /\ j < i)}) + 1

SortedByKey(items) ==
    CHOOSE sorted \in UNION {
        {AsList([p \in DOMAIN keyed |-> keyed[CHOOSE i \in DOMAIN keyed : position[i] = p]]) :
            position \in {AsList([i \in DOMAIN keyed |-> SortedPosition(keyed, i)])}} :
          keyed \in {AsList(items)}} : TRUE

(***************************************************************************)
(* Numbers as text.                                                        *)
(***************************************************************************)
\* str(n) for a non-negative integer
RECURSIVE IntToStr(_)
IntToStr(n) ==
    IF n < 10 THEN CharAt(DIGITS, n + 1)
    ELSE IntToStr(n \div 10) \o CharAt(DIGITS, (n % 10) + 1)

\* A size is held as base-1024 digits, lowest first, so that sizes of a
\* terabyte and more are exact.
ToDigits(n) ==
    [i \in 1..MaxSizeDigits |->
        IF i = 1 THEN n % 1024
        ELSE IF i = 2 THEN (n \div 1024) % 1024
        ELSE IF i = 3 THEN (n \div (1024 * 1024)) % 1024
        ELSE IF i = 4 THEN n \div (1024 * 1024 * 1024)
        ELSE 0]

\* size < 1024^k
BelowPower(d, k) == \A i \in (k+1)..Len(d) : d[i] = 0

\* The integer part of size / 1024^k.
RECURSIVE Quotient(_, _)
Quotient(d, k) ==
    IF Len(d) <= k THEN 0
    ELSE d[k + 1] + 1024 * Quotient(Tail(d), k)

\* 10 * (size mod 1024^k), digit by digit from the lowest: the carry out of
\* digit k is the first decimal of size / 1024^k before rounding, rems is the
\* remainder.
RECURSIVE MulChain(_, _, _)
MulChain(d, k, carryIn) ==
    IF k = 0 THEN [carry |-> carryIn, rems |-> <<>>]
    ELSE LET x    == 10 * d[1] + carryIn
             rest == MulChain(Tail(d), k - 1, x \div 1024)
         IN  [carry |-> rest.carry, rems |-> <<x % 1024>> \o rest.rems]

\* "%.1f" % (size / 1024^k): one decimal, correctly rounded, ties to even.
OneDecimal(d, k) ==
    LET whole == Quotient(d, k)
        m     == MulChain(d, k, 0)
        t     == m.carry
        top   == IF k = 0 THEN 0 ELSE m.rems[k]
        lowNZ == \E i \in 1..(k-1) : m.rems[i] # 0
        up    == \/ top > 512
                 \/ (top = 512 /\ lowNZ)
                 \/ (top = 512 /\ ~lowNZ /\ t % 2 = 1)
        t2    == IF up THEN t + 1 ELSE t
    IN  IF t2 = 10 THEN IntToStr(whole + 1) \o ".0"
        ELSE IntToStr(whole) \o "." \o IntToStr(t2)

(***************************************************************************)
(* Paths: sequences of names. A root-relative path p of the tree is the    *)
(* absolute path rootDir \o p.                                             *)
(***************************************************************************)
Parent(p) == SubSeq(p, 1, Len(p) - 1)
BaseName(p) == p[Len(p)]
Parts(p) == {p[i] : i \in 1..Len(p)}
\* str(path) with forward slashes
PathStr(p) == Join(p, "/")

(***************************************************************************)
(* Configuration of scripts/generate_all_indexes.py                        *)
(***************************************************************************)
IGNORE_DIRS == {".git", ".github", "node_modules", "__pycache__", ".DS_Store"}
IGNORE_FILES == {".gitignore", "README.md", ".gitattributes", "CNAME",
                 "generate_all_indexes.py"}
\* FILE_CATEGORIES, in the order the dict is iterated.
CATEGORY_ORDER == <<"quiz", "image", "document", "web", "data">>
CATEGORY_EXTENSIONS ==
    [quiz     |-> {".html"},
     image    |-> {".png", ".jpg", ".jpeg", ".gif", ".svg", ".webp"},
     document |-> {".pdf", ".doc", ".docx"},
     web      |-> {".html", ".htm", ".css", ".js"},
     data     |-> {".json", ".xml", ".csv", ".txt"}]
COUPLE_TAGS ==
    {"sommeil", "travail", "famille", "tâches", "solo", "social", "couple",
     "communication", "organisation", "intimité", "sexualité",
     "gestion", "conflits", "émotions", "temps", "activités",
     "famille-origine", "enfants", "loisirs", "quotidien",
     "débutant", "intermédiaire", "avancé", "exercice",
     "questionnaire", "ressource", "documentation",
     "module-1", "module-2", "module-3", "module-4", "module-5",
     "module-6", "module-7", "module-8", "module-9", "module-10"}
\* base_url of main()
BASE_URL == "https://11drumboy11.github.io/institut-du-couple"

(***************************************************************************)
(* Configuration of generate_module_indexes.py                             *)
(***************************************************************************)
REPO_ROOT == "."
MODULES == <<"Module 0", "Module 1", "Module 2", "Module 3", "Module 4",
             "Module 5", "Module 6", "Module 7", "Module 8", "Module 9",
             "Module 10", "Outils">>
\* The module cards of the main page: f"Module {i}" for i in range(11).
MODULE_CARDS == SubSeq(MODULES, 1, 11)
FLAT_CATEGORIES ==
    (".html" :> [icon |-> "page", category |-> "quiz", label |-> "Page Interactive"])
    @@ (".pdf" :> [icon |-> "red book", category |-> "document", label |-> "Document PDF"])
    @@ (".docx" :> [icon |-> "memo", category |-> "document", label |-> "Document Word"])
    @@ (".md" :> [icon |-> "clipboard", category |-> "other", label |-> "Documentation"])
    @@ (".mp4" :> [icon |-> "clapper", category |-> "media", label |-> "Video"])
    @@ (".jpg" :> [icon |-> "picture", category |-> "media", label |-> "Image"])
    @@ (".png" :> [icon |-> "picture", category |-> "media", label |-> "Image"])
FLAT_DEFAULT == [icon |-> "page", category |-> "other", label |-> "Fichier"]

(***************************************************************************)
(* The trees of the model: any set of these entries that is closed under   *)
(* parent and has at most MaxEntries members, with any of the sizes.       *)
(***************************************************************************)
TreeDirs == {<<"Module 0">>, <<"Module 0", "sub">>, <<"Module 1">>, <<".git">>}
TreeFiles == {<<"Module 0", "a.pdf">>, <<"Module 0", "A.pdf">>,
              <<"Module 0", "B.html">>, <<"Module 0", "index.html">>,
              <<"Module 0", ".DS_Store">>, <<"Module 0", "sub", "q.html">>,
              <<"Module 1", "c.txt">>, <<".git", "config">>,
              <<"README.md">>, <<"notes.txt">>}
FileSizes == {0, 10240}
\* Where the root may sit: Path.cwd().
RootDirs == {<<"/", "home", "site">>, <<"/", "home", "node_modules", "site">>}
\* The size of a page a run has written: its text is never empty.
WrittenSizes == FileSizes \ {0}

(***************************************************************************)
(* format_size                                                             *)
(***************************************************************************)
\* FileInfo.format_size of the recursive generator
FileInfo_format_size(d) ==
    IF BelowPower(d, 1) THEN IntToStr(Quotient(d, 0)) \o " B"
    ELSE IF BelowPower(d, 2) THEN OneDecimal(d, 1) \o " KB"
    ELSE IF BelowPower(d, 3) THEN OneDecimal(d, 2) \o " MB"
    ELSE OneDecimal(d, 3) \o " GB"

\* format_size of the flat generator: the loop over B, KB, MB, GB, then TB
RECURSIVE format_size_loop(_, _, _)
format_size_loop(d, k, units) ==
    IF Len(units) = 0 THEN OneDecimal(d, k) \o " TB"
    ELSE IF BelowPower(d, k + 1) THEN OneDecimal(d, k) \o " " \o units[1]
    ELSE format_size_loop(d, k + 1, Tail(units))

format_size(d) == format_size_loop(d, 0, <<"B", "KB", "MB", "GB">>)

(***************************************************************************)
(* State of the filesystem                                                 *)
(***************************************************************************)
\* A file of the listing that is gone when the loop tests its type
GoneBeforeTest(p) == p \in DOMAIN vanish /\ vanish[p] = "before_test"
\* item.is_file() / os.path.isfile(item_path): False for a path that no
\* longer exists
IsFile(p) == p \in DOMAIN fsFiles /\ ~GoneBeforeTest(p)
\* path.exists(), and whether a stat of the path succeeds, once the loop has
\* tested the type of the entry
PathExists(p) == p \in DOMAIN fsFiles /\ p \notin DOMAIN vanish
IsDir(p) == p \in fsDirs
Entries == fsDirs \cup DOMAIN fsFiles
\* os.listdir / iterdir: the names directly inside directory p
Children(p) == {e \in Entries : Len(e) = Len(p) + 1 /\ Parent(e) = p}

(***************************************************************************)
(* Recursive generator: FileInfo                                           *)
(***************************************************************************)
\* FileInfo._get_category: the first category, in dict order, that holds the
\* extension; 'other' when none does.
RECURSIVE FirstCategory(_, _)
FirstCategory(ext, order) ==
    IF Len(order) = 0 THEN "other"
    ELSE IF ext \in CATEGORY_EXTENSIONS[order[1]] THEN order[1]
    ELSE FirstCategory(ext, Tail(order))

\* _get_category without the final return 'other'.
FileInfo_get_category_NoDefault(ext) ==
    IF \E category \in DOMAIN CATEGORY_EXTENSIONS : ext \in CATEGORY_EXTENSIONS[category]
    THEN FirstCategory(ext, CATEGORY_ORDER)
    ELSE ""

FileInfo_get_category(ext) == FirstCategory(ext, CATEGORY_ORDER)

\* FileInfo.get_icon
FileInfo_get_icon(category) ==
    CASE category = "quiz" -> "memo"
      [] category = "web" -> "globe"
      [] category = "image" -> "picture"
      [] category = "document" -> "page"
      [] category = "data" -> "chart"
      [] OTHER -> "folder"

(***************************************************************************)
(* The content of an HTML file, as BeautifulSoup finds it:                 *)
(*   readable     open, read and parse succeed                             *)
(*   title        the text of the first title element, <<>> when none      *)
(*   keywords     content of the first meta name="keywords", <<>> if none  *)
(*   description  content of the first meta name="description", or <<>>    *)
(*   body         the text of the document outside the title               *)
(***************************************************************************)
\* soup.get_text(): the text of every element, the title included
get_text(doc) == (IF Len(doc.title) = 1 THEN doc.title[1] ELSE "") \o doc.body

\* The keywords of meta keywords taken as tags without the vocabulary test.
KeywordTags_Unfiltered(doc) ==
    IF Len(doc.keywords) = 0 THEN {}
    ELSE LET keywords == Split(doc.keywords[1], ",")
         IN  {StrLower(Strip(keywords[i])) : i \in DOMAIN keywords}

\* The keywords kept from meta keywords: split on commas, stripped,
\* lower-cased, kept if in COUPLE_TAGS.
KeywordTags(doc) ==
    IF Len(doc.keywords) = 0 THEN {}
    ELSE LET keywords == Split(doc.keywords[1], ",")
         IN  {StrLower(Strip(keywords[i])) : i \in DOMAIN keywords} \cap COUPLE_TAGS

\* The tags found in the text of the document.
ContentTags(doc) ==
    UNION {{tag \in COUPLE_TAGS : Contains(text_content, tag)} :
              text_content \in {StrLower(get_text(doc))}}

\* _extract_html_info taking the description only when there is no title
\* element (meta_desc and title is None).
FileInfo_extract_html_info_NoTitleElement(doc) ==
    IF ~doc.readable THEN [content_preview |-> "", tags |-> {}]
    ELSE [content_preview |->
              IF Len(doc.title) = 1 THEN Strip(doc.title[1])
              ELSE IF Len(doc.description) = 1
                   THEN Truncate(Strip(doc.description[1]), 200)
                   ELSE "",
          tags |-> KeywordTags(doc) \cup ContentTags(doc)]

\* FileInfo._extract_html_info: what it leaves in content_preview and tags.
\* An exception of open, read or parse is caught: nothing has been set yet.
FileInfo_extract_html_info(doc) ==
    IF ~doc.readable THEN [content_preview |-> "", tags |-> {}]
    ELSE LET title_preview == IF Len(doc.title) = 1 THEN Strip(doc.title[1]) ELSE ""
         IN  [content_preview |->
                  IF Len(doc.description) = 1 /\ title_preview = ""
                  THEN Truncate(Strip(doc.description[1]), 200)
                  ELSE title_preview,
              tags |-> KeywordTags(doc) \cup ContentTags(doc)]

\* _extract_filename_tags looking at the file name only, not at the path.
FileInfo_extract_filename_tags_NameOnly(name, relative_path) ==
    UNION {{tag \in COUPLE_TAGS : Contains(filename_lower, tag)} :
              filename_lower \in {StrLower(name)}}

\* The loop of _extract_filename_tags over COUPLE_TAGS.
FilenameTags(name, relative_path) ==
    UNION {{tag \in COUPLE_TAGS : Contains(filename_lower, tag) \/ Contains(path_lower, tag)} :
              filename_lower \in {StrLower(name)},
              path_lower \in {StrLower(PathStr(relative_path))}}

\* The tags of the names and paths of the files of the trees, computed once.
FILENAME_TAGS == [rel \in TreeFiles |-> FilenameTags(BaseName(rel), rel)] @@ <<>>

\* FileInfo._extract_filename_tags
FileInfo_extract_filename_tags(name, relative_path) ==
    IF relative_path \in DOMAIN FILENAME_TAGS /\ name = BaseName(relative_path)
    THEN FILENAME_TAGS[relative_path]
    ELSE FilenameTags(name, relative_path)

\* The part of FileInfo.__init__ after the category: tags and content_preview
\* start empty, _extract_html_info runs for .html and .htm, then
\* _extract_filename_tags.
FileInfo_content(rel, relative_path) ==
    CHOOSE content \in
        {[content_preview |-> html.content_preview,
          tags |-> html.tags
                   \cup FileInfo_extract_filename_tags(BaseName(rel), relative_path)] :
            html \in {IF StrLower(Suffix(BaseName(rel))) \in {".html", ".htm"}
                      THEN FileInfo_extract_html_info(docs[rel])
                      ELSE [content_preview |-> "", tags |-> {}]}} : TRUE

\* FileInfo.__init__ without the try/except of _extract_html_info: an HTML
\* file that cannot be read raises too.
FileInfo_raises_HtmlUncaught(rel) ==
    \/ ~PathExists(rel)
    \/ /\ StrLower(Suffix(BaseName(rel))) \in {".html", ".htm"}
       /\ ~docs[rel].readable

\* FileInfo.__init__ raises: path.stat() for the modification time, on a
\* path that does not exist, is a FileNotFoundError.
FileInfo_raises(rel) == ~PathExists(rel)

\* FileInfo.__init__ with the path taken relative to the file's own directory
\* instead of the root.
FileInfo_RelativeToParent(rel) ==
    CHOOSE f \in
        {[path            |-> rootDir \o rel,
          name            |-> BaseName(rel),
          relative_path   |-> <<BaseName(rel)>>,
          extension       |-> StrLower(Suffix(BaseName(rel))),
          size            |-> IF PathExists(rel) THEN fsFiles[rel] ELSE 0,
          category        |-> FileInfo_get_category(StrLower(Suffix(BaseName(rel)))),
          tags            |-> content.tags,
          content_preview |-> content.content_preview] :
            content \in {FileInfo_content(rel, <<BaseName(rel)>>)}} : TRUE

\* FileInfo.__init__(path, root_dir) for the file at root-relative path rel
FileInfo(rel) ==
    CHOOSE f \in
        {[path            |-> rootDir \o rel,
          name            |-> BaseName(rel),
          relative_path   |-> rel,
          extension       |-> StrLower(Suffix(BaseName(rel))),
          size            |-> IF PathExists(rel) THEN fsFiles[rel] ELSE 0,
          category        |-> FileInfo_get_category(StrLower(Suffix(BaseName(rel)))),
          tags            |-> content.tags,
          content_preview |-> content.content_preview] :
            content \in {FileInfo_content(rel, rel)}} : TRUE

(***************************************************************************)
(* URL escaping                                                            *)
(***************************************************************************)
HEXDIGITS == "0123456789ABCDEF"
\* urllib.parse.quote leaves letters, digits, "_.-~" and the safe "/" alone,
\* and writes any other character as %XX.
QuoteChar(c) ==
    IF c \in CharsOf(DIGITS) \cup CharsOf(UPPERCASE) \cup CharsOf(LOWERCASE)
              \cup {"_", ".", "-", "~", "/"}
    THEN c
    ELSE "%" \o CharAt(HEXDIGITS, (Ord(c) \div 16) + 1) \o CharAt(HEXDIGITS, (Ord(c) % 16) + 1)

RECURSIVE Quote(_)
Quote(s) ==
    IF Len(s) = 0 THEN "" ELSE QuoteChar(CharAt(s, 1)) \o Quote(SubSeq(s, 2, Len(s)))

\* FileInfo.get_url(base_url)
FileInfo_get_url(f, base_url) == base_url \o "/" \o Quote(PathStr(f.relative_path))

\* FileInfo.to_dict
FileInfo_to_dict(f) ==
    [name           |-> f.name,
     path           |-> PathStr(f.relative_path),
     category       |-> f.category,
     extension      |-> f.extension,
     size           |-> f.size,
     size_formatted |-> FileInfo_format_size(ToDigits(f.size)),
     tags           |-> f.tags,
     preview        |-> f.content_preview,
     icon           |-> FileInfo_get_icon(f.category)]

(***************************************************************************)
(* Recursive generator: DirectoryScanner                                   *)
(***************************************************************************)
\* The test of the scan made on the name of the entry alone (item.name)
\* instead of on every part of its path.
HasIgnoredPart_NameOnly(rel) == BaseName(rel) \in IGNORE_DIRS

\* any(ignored in item.parts for ignored in IGNORE_DIRS), item the absolute path
HasIgnoredPart(rel) == \E ignored \in IGNORE_DIRS : ignored \in Parts(rootDir \o rel)

\* One iteration of the loop of DirectoryScanner.scan, for the entry rglob
\* yields next. rglob yields every entry below the root once: it lists one
\* directory after another, a directory before the directories it holds, and
\* the entries of one directory in the order the filesystem decides.
ScanItem(item) ==
    /\ variant = "recursive"
    /\ pc = "scan"
    /\ item \in todo
    /\ Len(item) > 1 => Parent(item) \notin todo
    /\ \A e \in todo : \A yielded \in Entries \ todo :
          Parent(e) = Parent(yielded) => Parent(e) = Parent(item)
    /\ todo' = todo \ {item}
    /\ IF HasIgnoredPart(item)
       THEN UNCHANGED <<scanFiles, scanDirs, pc, error>>
       ELSE IF IsFile(item)
            THEN IF BaseName(item) \in IGNORE_FILES \/ BaseName(item) = "index.html"
                 THEN UNCHANGED <<scanFiles, scanDirs, pc, error>>
                 ELSE IF FileInfo_raises(item)
                      THEN /\ pc' = "crashed"
                           /\ error' = "FileNotFoundError"
                           /\ UNCHANGED <<scanFiles, scanDirs>>
                      ELSE /\ scanFiles' = Append(scanFiles, FileInfo(item))
                           /\ UNCHANGED <<scanDirs, pc, error>>
            ELSE IF IsDir(item)
                 THEN /\ scanDirs' = scanDirs \cup {rootDir \o item}
                      /\ UNCHANGED <<scanFiles, pc, error>>
                 ELSE UNCHANGED <<scanFiles, scanDirs, pc, error>>
    /\ UNCHANGED <<variant, rootDir, fsDirs, fsFiles, dirsLeft, modIdx,
                   modulesData, pages, writes, run, prevPages>>
    /\ UNCHANGED <<envVars, fmtVars>>

\* The loop of scan is over; main builds the IndexGenerator and calls
\* generate_all.
ScanEnd ==
    /\ variant = "recursive"
    /\ pc = "scan"
    /\ todo = {}
    /\ pc' = "root_index"
    /\ UNCHANGED <<variant, rootDir, fsDirs, fsFiles, todo, scanFiles, scanDirs,
                   dirsLeft, modIdx, modulesData, pages, writes, error, run,
                   prevPages>>
    /\ UNCHANGED <<envVars, fmtVars>>

\* get_files_in_directory taking every file below the directory
\* (directory in f.path.parents) instead of the files directly in it.
get_files_in_directory_Below(directory) ==
    SelectSeq(scanFiles, LAMBDA f : Len(f.path) > Len(directory)
                                    /\ SubSeq(f.path, 1, Len(directory)) = directory)

\* DirectoryScanner.get_files_in_directory
get_files_in_directory(directory) ==
    SelectSeq(scanFiles, LAMBDA f : Parent(f.path) = directory)

\* DirectoryScanner.get_subdirectories: sorted, Paths compare part by part;
\* the sub-directories of one directory differ in their last part only.
get_subdirectories(directory) ==
    CHOOSE result \in UNION {
        {AsList([i \in DOMAIN sorted |-> sorted[i].val]) :
            sorted \in {SortedByKey([i \in DOMAIN some |->
                            [key |-> BaseName(some[i]), val |-> some[i]]])}} :
          \* the sub-directories in some order, then sorted
          some \in {CHOOSE q \in Orders({d \in scanDirs : Parent(d) = directory}) : TRUE}} : TRUE

(***************************************************************************)
(* Writing a page                                                          *)
(***************************************************************************)
\* open(output_path, 'w') and write: the file is created or replaced. A
\* page is never empty, so the file written has some positive size.
WritePage(path, page) ==
    /\ pages' = (path :> page) @@ pages
    /\ writes' = Append(writes, path)
    /\ \E sz \in WrittenSizes : fsFiles' = (path :> sz) @@ fsFiles

(***************************************************************************)
(* Recursive generator: IndexGenerator                                     *)
(***************************************************************************)
RECURSIVE SumSizes(_)
SumSizes(files) ==
    IF Len(files) = 0 THEN 0 ELSE files[1].size + SumSizes(Tail(files))

\* Path.relative_to(root): defined when root is a leading part of path; a
\* ValueError otherwise.
IsRelativeTo(path, root) ==
    Len(root) <= Len(path) /\ SubSeq(path, 1, Len(root)) = root

\* Path('.'): no parts
DOT_PATH == <<>>

\* The "Taille Totale" card of the root page:
\*   FileInfo(Path('.'), root_dir).format_size() if total_size > 0 else '0 B'
\* FileInfo.__init__ starts with path.relative_to(root_dir).
RootSizeCardRaises == SumSizes(scanFiles) > 0 /\ ~IsRelativeTo(DOT_PATH, rootDir)

\* One entry of the listing of a page.
Listing(name, href, size_formatted) ==
    [name |-> name, href |-> href, size_formatted |-> size_formatted]

\* filesData of the root page, and the target displayFiles opens for each:
\* base_url + '/' + file.path. The cards appear in the order of filesData.
RootListing ==
    AsList([i \in DOMAIN scanFiles |->
              CHOOSE card \in
                  {Listing(dct.name, BASE_URL \o "/" \o dct.path, dct.size_formatted) :
                      dct \in {FileInfo_to_dict(scanFiles[i])}} : TRUE])

RootPage ==
    [kind  |-> "root",
     total |-> Len(scanFiles),
     html  |-> Len(SelectSeq(scanFiles, LAMBDA f : f.extension \in {".html", ".htm"})),
     quiz  |-> Len(SelectSeq(scanFiles, LAMBDA f :
                    \/ Contains(StrLower(PathStr(f.relative_path)), "quiz")
                    \/ Contains(StrLower(PathStr(f.relative_path)), "questionnaire"))),
     size_text |-> "0 B",
     files |-> RootListing,
     subdirs |-> <<>>]

\* IndexGenerator.generate_root_index, the first call of generate_all
GenerateRootIndex ==
    /\ variant = "recursive"
    /\ pc = "root_index"
    /\ IF RootSizeCardRaises
       THEN /\ pc' = "crashed"
            /\ error' = "ValueError"
            /\ UNCHANGED <<pages, writes, fsFiles, dirsLeft>>
       ELSE /\ WritePage(<<"index.html">>, RootPage)
            /\ pc' = "dir_index"
            /\ dirsLeft' = scanDirs
            /\ UNCHANGED error
    /\ UNCHANGED <<variant, rootDir, fsDirs, todo, scanFiles, scanDirs, modIdx,
                   modulesData, run, prevPages>>
    /\ UNCHANGED <<envVars, fmtVars>>

\* IndexGenerator._generate_files_section: sorted(files, key=lambda f: f.name)
FilesSection(files) ==
    CHOOSE section \in
        {AsList([i \in DOMAIN sorted |->
                    Listing(sorted[i].val.name,
                            FileInfo_get_url(sorted[i].val, BASE_URL),
                            FileInfo_format_size(ToDigits(sorted[i].val.size)))]) :
            sorted \in {SortedByKey([i \in DOMAIN files |->
                            [key |-> files[i].name, val |-> files[i]]])}} : TRUE

\* IndexGenerator._generate_subdirs_section
SubdirsSection(subdirs) ==
    AsList([i \in DOMAIN subdirs |->
        [name |-> BaseName(subdirs[i]),
         href |-> BASE_URL \o "/"
                  \o PathStr(SubSeq(subdirs[i], Len(rootDir) + 1, Len(subdirs[i])))
                  \o "/index.html"]])

DirectoryPage(directory) ==
    CHOOSE page \in
        {[kind  |-> "dir",
          total |-> Len(files),
          files |-> FilesSection(files),
          subdirs |-> SubdirsSection(subdirs)] :
            files \in {get_files_in_directory(directory)},
            subdirs \in {get_subdirectories(directory)}} : TRUE

\* generate_directory_index without the early return for a directory that has
\* neither files nor sub-directories.
GenerateDirectoryIndex_AlwaysWrites(directory) ==
    /\ variant = "recursive"
    /\ pc = "dir_index"
    /\ directory \in dirsLeft
    /\ dirsLeft' = dirsLeft \ {directory}
    /\ WritePage(Append(SubSeq(directory, Len(rootDir) + 1, Len(directory)),
                        "index.html"),
                 DirectoryPage(directory))
    /\ UNCHANGED <<variant, rootDir, fsDirs, pc, todo, scanFiles, scanDirs, modIdx,
                   modulesData, error, run, prevPages>>
    /\ UNCHANGED <<envVars, fmtVars>>

\* IndexGenerator.generate_directory_index, one iteration of the loop of
\* generate_all over scanner.directories (a set: any order)
GenerateDirectoryIndex(directory) ==
    /\ variant = "recursive"
    /\ pc = "dir_index"
    /\ directory \in dirsLeft
    /\ dirsLeft' = dirsLeft \ {directory}
    /\ IF Len(get_files_in_directory(directory)) = 0
          /\ Len(get_subdirectories(directory)) = 0
       THEN UNCHANGED <<pages, writes, fsFiles>>
       ELSE WritePage(Append(SubSeq(directory, Len(rootDir) + 1, Len(directory)),
                             "index.html"),
                      DirectoryPage(directory))
    /\ UNCHANGED <<variant, rootDir, fsDirs, pc, todo, scanFiles, scanDirs, modIdx,
                   modulesData, error, run, prevPages>>
    /\ UNCHANGED <<envVars, fmtVars>>

\* generate_all returns and main ends.
GenerateAllEnd ==
    /\ variant = "recursive"
    /\ pc = "dir_index"
    /\ dirsLeft = {}
    /\ pc' = "done"
    /\ UNCHANGED <<variant, rootDir, fsDirs, fsFiles, todo, scanFiles, scanDirs,
                   dirsLeft, modIdx, modulesData, pages, writes, error, run,
                   prevPages>>
    /\ UNCHANGED <<envVars, fmtVars>>

(***************************************************************************)
(* Flat generator                                                          *)
(***************************************************************************)
\* os.path.join(a, b)
os_path_join(a, b) == a \o "/" \o b

\* The parts of a path string, without "." and without empty parts.
SplitTreePath(pathStr) ==
    SelectSeq(Split(pathStr, "/"), LAMBDA seg : seg # "." /\ seg # "")

\* The path strings main and scan_module build for the modules and for the
\* files of the trees, each with its tree path, computed once.
FLAT_TREE_PATHS ==
    [pathStr \in {os_path_join(REPO_ROOT, MODULES[i]) : i \in DOMAIN MODULES}
                 \cup {os_path_join(os_path_join(REPO_ROOT, f[1]), f[2]) :
                          f \in {g \in TreeFiles : Len(g) = 2}}
        |-> SplitTreePath(pathStr)] @@ <<>>

\* The tree path of a path string of the flat generator ("./Module 0/a.pdf").
FlatTreePath(pathStr) ==
    IF pathStr \in DOMAIN FLAT_TREE_PATHS THEN FLAT_TREE_PATHS[pathStr]
    ELSE SplitTreePath(pathStr)

\* get_file_info(filepath)
get_file_info(filepath) ==
    CHOOSE file_info \in UNION {UNION {
        {[name           |-> name,
          path           |-> filepath,
          extension      |-> ext,
          size           |-> size,
          size_formatted |-> format_size(ToDigits(size)),
          icon           |-> info.icon,
          category       |-> info.category,
          label          |-> info.label] :
            info \in {IF ext \in DOMAIN FLAT_CATEGORIES THEN FLAT_CATEGORIES[ext]
                      ELSE FLAT_DEFAULT},
            size \in {fsFiles[FlatTreePath(filepath)]}} :
          ext \in {StrLower(Suffix(name))}} :
        name \in {BaseName(Split(filepath, "/"))}} : TRUE

\* get_file_info raises: os.stat(filepath) on a path that does not exist is
\* a FileNotFoundError.
get_file_info_raises(filepath) == ~PathExists(FlatTreePath(filepath))

\* The loop of scan_module without the test on the name: every regular
\* file of the listing is kept.
scan_module_kept_NoNameTest(module_path, listing) ==
    SelectSeq(listing, LAMBDA item :
        IsFile(FlatTreePath(os_path_join(module_path, item))))

\* The names of the listing that the loop of scan_module gives to
\* get_file_info: not skipped by name, and regular files.
scan_module_kept(module_path, listing) ==
    SelectSeq(listing, LAMBDA item :
        /\ ~(StartsWith(item, ".") \/ item = "__pycache__")
        /\ IsFile(FlatTreePath(os_path_join(module_path, item))))

\* The loop of scan_module over os.listdir(module_path), listing being the
\* names in the order listdir returns them: the names that are not skipped
\* and are regular files, each with its get_file_info.
scan_module_loop(module_path, listing) ==
    CHOOSE files \in
        {AsList([i \in DOMAIN kept |-> get_file_info(os_path_join(module_path, kept[i]))]) :
            kept \in {scan_module_kept(module_path, listing)}} : TRUE

\* scan_module raises when get_file_info does for one of the names.
scan_module_raises(module_path, listing) ==
    /\ IsDir(FlatTreePath(module_path))
    /\ \E kept \in {scan_module_kept(module_path, listing)} :
          \E i \in DOMAIN kept :
              get_file_info_raises(os_path_join(module_path, kept[i]))

\* sorted(files, key=lambda x: x['name'].lower())
SortedByLowerName(files) ==
    CHOOSE result \in
        {AsList([i \in DOMAIN sorted |-> sorted[i].val]) :
            sorted \in {SortedByKey([i \in DOMAIN files |->
                            [key |-> StrLower(files[i].name), val |-> files[i]]])}} : TRUE

\* scan_module(module_path)
scan_module(module_path, listing) ==
    IF ~IsDir(FlatTreePath(module_path)) THEN <<>>
    ELSE SortedByLowerName(scan_module_loop(module_path, listing))

\* The orders in which os.listdir may return the names inside directory p.
Listings(p) == Orders({BaseName(e) : e \in Children(p)})

\* generate_module_index(module_name, files)
ModulePage(module_name, files) ==
    [kind  |-> "module",
     total |-> Len(files),
     html  |-> Len(SelectSeq(files, LAMBDA f : f.extension = ".html")),
     docs  |-> Len(SelectSeq(files, LAMBDA f : f.extension \in {".pdf", ".docx"})),
     back  |-> "../index.html",
     files |-> [i \in DOMAIN files |->
                  Listing(files[i].name, files[i].path, files[i].size_formatted)],
     subdirs |-> <<>>]

\* The iteration of main without the os.path.exists test before the write:
\* open() of a page in a directory that does not exist raises.
ProcessModule_NoExistsTest ==
    /\ variant = "flat"
    /\ pc = "modules"
    /\ modIdx <= Len(MODULES)
    /\ LET module_name == MODULES[modIdx]
           module_path == os_path_join(REPO_ROOT, module_name)
       IN  \E listing \in Listings(<<module_name>>) :
             IF scan_module_raises(module_path, listing)
                \/ ~IsDir(FlatTreePath(module_path))
             THEN /\ pc' = "crashed"
                  /\ error' = "FileNotFoundError"
                  /\ UNCHANGED <<modulesData, pages, writes, fsFiles, modIdx>>
             ELSE \E files \in {scan_module(module_path, listing)} :
                    /\ modulesData' = (module_name :> [files |-> files]) @@ modulesData
                    /\ WritePage(<<module_name, "index.html">>,
                                 ModulePage(module_name, files))
                    /\ modIdx' = modIdx + 1
                    /\ UNCHANGED <<pc, error>>
    /\ UNCHANGED <<variant, rootDir, fsDirs, todo, scanFiles, scanDirs,
                   dirsLeft, run, prevPages>>
    /\ UNCHANGED <<envVars, fmtVars>>

\* The iteration of main creating the module directory when it is missing
\* (os.makedirs(module_path, exist_ok=True)) instead of testing that it
\* exists: the page is then written for every module.
ProcessModule_MakeDirs ==
    /\ variant = "flat"
    /\ pc = "modules"
    /\ modIdx <= Len(MODULES)
    /\ LET module_name == MODULES[modIdx]
           module_path == os_path_join(REPO_ROOT, module_name)
       IN  \E listing \in Listings(<<module_name>>) :
             IF scan_module_raises(module_path, listing)
             THEN /\ pc' = "crashed"
                  /\ error' = "FileNotFoundError"
                  /\ UNCHANGED <<modulesData, pages, writes, fsFiles, fsDirs, modIdx>>
             ELSE \E files \in {scan_module(module_path, listing)} :
                    /\ modulesData' = (module_name :> [files |-> files]) @@ modulesData
                    /\ fsDirs' = fsDirs \cup {<<module_name>>}
                    /\ WritePage(<<module_name, "index.html">>,
                                 ModulePage(module_name, files))
                    /\ modIdx' = modIdx + 1
                    /\ UNCHANGED <<pc, error>>
    /\ UNCHANGED <<variant, rootDir, todo, scanFiles, scanDirs,
                   dirsLeft, run, prevPages>>
    /\ UNCHANGED <<envVars, fmtVars>>

\* One iteration of the loop of main over MODULES: scan the module, then
\* write its page when the module directory exists.
ProcessModule ==
    /\ variant = "flat"
    /\ pc = "modules"
    /\ modIdx <= Len(MODULES)
    /\ LET module_name == MODULES[modIdx]
           module_path == os_path_join(REPO_ROOT, module_name)
       IN  \E listing \in Listings(<<module_name>>) :
             IF scan_module_raises(module_path, listing)
             THEN /\ pc' = "crashed"
                  /\ error' = "FileNotFoundError"
                  /\ UNCHANGED <<modulesData, pages, writes, fsFiles, modIdx>>
             ELSE \E files \in {scan_module(module_path, listing)} :
                    /\ modulesData' = (module_name :> [files |-> files]) @@ modulesData
                    /\ IF IsDir(FlatTreePath(module_path))
                       THEN WritePage(<<module_name, "index.html">>,
                                      ModulePage(module_name, files))
                       ELSE UNCHANGED <<pages, writes, fsFiles>>
                    /\ modIdx' = modIdx + 1
                    /\ UNCHANGED <<pc, error>>
    /\ UNCHANGED <<variant, rootDir, fsDirs, todo, scanFiles, scanDirs,
                   dirsLeft, run, prevPages>>
    /\ UNCHANGED <<envVars, fmtVars>>

RECURSIVE SumFiles(_, _)
SumFiles(data, names) ==
    IF names = {} THEN 0
    ELSE LET n == CHOOSE x \in names : TRUE
         IN  Len(data[n].files) + SumFiles(data, names \ {n})

RECURSIVE SumHtml(_, _)
SumHtml(data, names) ==
    IF names = {} THEN 0
    ELSE LET n == CHOOSE x \in names : TRUE
         IN  Len(SelectSeq(data[n].files, LAMBDA f : f.extension = ".html"))
             + SumHtml(data, names \ {n})

\* all_modules_data.get(module_name, {'files': []})
ModuleFiles(data, module_name) ==
    IF module_name \in DOMAIN data THEN data[module_name].files ELSE <<>>

\* generate_main_index(all_modules_data)
MainPage(data) ==
    [kind  |-> "main",
     total |-> SumFiles(data, DOMAIN data),
     html  |-> SumHtml(data, DOMAIN data),
     files |-> LET tools == SelectSeq(ModuleFiles(data, "Outils"),
                                      LAMBDA f : f.extension = ".html")
               IN  [i \in DOMAIN tools |->
                      Listing(tools[i].name, tools[i].path, tools[i].size_formatted)],
     subdirs |-> [i \in DOMAIN MODULE_CARDS |->
                    [name  |-> MODULE_CARDS[i],
                     href  |-> MODULE_CARDS[i] \o "/index.html",
                     count |-> Len(ModuleFiles(data, MODULE_CARDS[i]))]]]

\* The end of main: the main page is written at the root.
WriteMainIndex ==
    /\ variant = "flat"
    /\ pc = "modules"
    /\ modIdx > Len(MODULES)
    /\ WritePage(<<"index.html">>, MainPage(modulesData))
    /\ pc' = "done"
    /\ UNCHANGED <<variant, rootDir, fsDirs, todo, scanFiles, scanDirs, dirsLeft,
                   modIdx, modulesData, error, run, prevPages>>
    /\ UNCHANGED <<envVars, fmtVars>>

(***************************************************************************)
(* Runs                                                                    *)
(***************************************************************************)
StartPc == IF variant = "recursive" THEN "scan" ELSE "modules"

\* The script is run again on the tree a completed run has left: the files
\* that disappeared are not in it.
Rerun ==
    /\ pc = "done"
    /\ run < MaxRuns
    /\ run' = run + 1
    /\ prevPages' = pages
    /\ pages' = <<>>
    /\ writes' = <<>>
    /\ error' = "none"
    /\ pc' = StartPc
    /\ fsFiles' = [f \in DOMAIN fsFiles \ DOMAIN vanish |-> fsFiles[f]]
    /\ vanish' = <<>>
    /\ todo' = IF variant = "recursive"
               THEN fsDirs \cup (DOMAIN fsFiles \ DOMAIN vanish) ELSE {}
    /\ scanFiles' = <<>>
    /\ scanDirs' = {}
    /\ dirsLeft' = {}
    /\ modIdx' = 1
    /\ modulesData' = <<>>
    /\ UNCHANGED <<variant, rootDir, fsDirs, docs>>
    /\ UNCHANGED fmtVars

\* A tree: closed under parent, at most MaxEntries entries.
IsTree(ds, fs) ==
    /\ Cardinality(ds) + Cardinality(fs) <= MaxEntries
    /\ \A e \in ds \cup fs : Len(e) > 1 => Parent(e) \in ds

\* No format_size check is in progress.
FmtIdle == fmtSize = <<>> /\ fmtOut = [recursive |-> "", flat |-> ""]

InitGen ==
    /\ variant \in {"recursive", "flat"}
    /\ rootDir \in RootDirs
    /\ variant = "flat" => rootDir = <<"/", "home", "site">>
    /\ fsDirs \in SUBSET TreeDirs
    /\ \E fs \in SUBSET TreeFiles :
          /\ IsTree(fsDirs, fs)
          /\ fsFiles \in [fs -> FileSizes]
    /\ pc = StartPc
    /\ todo = IF variant = "recursive" THEN Entries ELSE {}
    /\ scanFiles = <<>>
    /\ scanDirs = {}
    /\ dirsLeft = {}
    /\ modIdx = 1
    /\ modulesData = <<>>
    /\ pages = <<>>
    /\ writes = <<>>
    /\ error = "none"
    /\ run = 1
    /\ prevPages = <<>>

\* An HTML document with a title and nothing else.
PlainDocument ==
    [readable |-> TRUE, title |-> <<"Bilan">>, keywords |-> <<>>,
     description |-> <<>>, body |-> ""]

\* The files FileInfo reads as HTML.
HtmlFiles(fs) == {f \in fs : StrLower(Suffix(BaseName(f))) \in {".html", ".htm"}}

\* Every HTML file is a plain document and no file disappears.
EnvPlain ==
    /\ docs = [f \in HtmlFiles(DOMAIN fsFiles) |-> PlainDocument]
    /\ vanish = <<>>

Init == InitGen /\ EnvPlain /\ FmtIdle

Next ==
    \/ \E item \in todo : ScanItem(item)
    \/ ScanEnd
    \/ GenerateRootIndex
    \/ \E directory \in dirsLeft : GenerateDirectoryIndex(directory)
    \/ GenerateAllEnd
    \/ ProcessModule
    \/ WriteMainIndex
    \/ Rerun

Spec == Init /\ [][Next]_vars

(***************************************************************************)
(* Runs over trees whose files differ in name, extension and content, and  *)
(* in which a file may disappear while the run is under way.               *)
(***************************************************************************)
InfoDirs == {<<"Module 1">>, <<"Module-10">>}
InfoFiles == {<<"Module 1", "exercice-communication.html">>,
              <<"Module 1", "Photo.JPG">>,
              <<"Module 1", "notes">>,
              <<"Module-10", "Couple.xyz">>,
              <<"page.htm">>}

RECURSIVE Repeat(_, _)
Repeat(s, n) == IF n = 0 THEN "" ELSE s \o Repeat(s, n - 1)

\* A description of 211 characters, the first a space.
LongDescription == " " \o Repeat("0123456789", 21)

Documents ==
    {\* the file cannot be read (open or read raises)
     [readable |-> FALSE, title |-> <<"Couple">>, keywords |-> <<"sommeil">>,
      description |-> <<"Loisirs">>, body |-> "travail"],
     \* title, keywords in and out of the vocabulary, description, text
     [readable |-> TRUE, title |-> <<" Bilan du couple ">>,
      keywords |-> <<"Sommeil, amour ,ENFANTS">>,
      description |-> <<"Resume">>, body |-> "la Famille"],
     \* an empty title element, and a long description
     [readable |-> TRUE, title |-> <<"  ">>, keywords |-> <<>>,
      description |-> <<LongDescription>>, body |-> ""],
     \* no title element, a description
     [readable |-> TRUE, title |-> <<>>, keywords |-> <<"amour">>,
      description |-> <<" Resume ">>, body |-> "texte"],
     \* neither title nor description
     [readable |-> TRUE, title |-> <<>>, keywords |-> <<>>,
      description |-> <<>>, body |-> ""]}

\* At most one file disappears, before or after the loop tests its type.
Vanishings(fs) ==
    {<<>>} \cup UNION {{(f :> "before_test"), (f :> "after_test")} : f \in fs}

InitInfo ==
    /\ variant \in {"recursive", "flat"}
    /\ rootDir = <<"/", "home", "site">>
    /\ fsDirs \in SUBSET InfoDirs
    /\ \E fs \in SUBSET InfoFiles :
          /\ Cardinality(fsDirs) + Cardinality(fs) <= MaxInfoEntries
          /\ \A e \in fsDirs \cup fs : Len(e) > 1 => Parent(e) \in fsDirs
          /\ fsFiles = [f \in fs |-> 0]
          /\ docs \in [HtmlFiles(fs) -> Documents]
          /\ vanish \in Vanishings(fs)
    /\ pc = StartPc
    /\ todo = IF variant = "recursive" THEN fsDirs \cup DOMAIN fsFiles ELSE {}
    /\ scanFiles = <<>>
    /\ scanDirs = {}
    /\ dirsLeft = {}
    /\ modIdx = 1
    /\ modulesData = <<>>
    /\ pages = <<>>
    /\ writes = <<>>
    /\ error = "none"
    /\ run = 1
    /\ prevPages = <<>>
    /\ FmtIdle

SpecInfo == InitInfo /\ [][Next]_vars

(***************************************************************************)
(* format_size on its own: any size of MaxSizeDigits base-1024 digits      *)
(* drawn from SizeDigitValues, given to both implementations.              *)
(***************************************************************************)
\* Digits at, next to and between the unit and rounding boundaries. Above
\* the fifth digit only 0 and 1, so that every size is below 2^53 and the
\* float divisions by 1024.0 of the code are exact.
SizeDigitValues(i) == IF i <= 5 THEN {0, 1, 256, 512, 973, 1023} ELSE {0, 1}

SizeInputs ==
    {d \in [1..MaxSizeDigits -> UNION {SizeDigitValues(i) : i \in 1..MaxSizeDigits}] :
        \A i \in 1..MaxSizeDigits : d[i] \in SizeDigitValues(i)}

\* No generator runs.
GenIdle ==
    /\ variant = "none"
    /\ rootDir = <<>>
    /\ fsDirs = {}
    /\ fsFiles = <<>>
    /\ pc = "idle"
    /\ todo = {}
    /\ scanFiles = <<>>
    /\ scanDirs = {}
    /\ dirsLeft = {}
    /\ modIdx = 1
    /\ modulesData = <<>>
    /\ pages = <<>>
    /\ writes = <<>>
    /\ error = "none"
    /\ run = 1
    /\ prevPages = <<>>
    /\ docs = <<>>
    /\ vanish = <<>>

InitSize ==
    /\ GenIdle
    /\ fmtSize \in SizeInputs
    /\ fmtOut = [recursive |-> "", flat |-> ""]

\* FileInfo.format_size() is called on a file of size fmtSize.
FormatRecursive ==
    /\ pc = "idle"
    /\ fmtOut.recursive = ""
    /\ fmtOut' = [fmtOut EXCEPT !.recursive = FileInfo_format_size(fmtSize)]
    /\ UNCHANGED fmtSize
    /\ UNCHANGED genVars

\* format_size(fmtSize) of the flat generator is called.
FormatFlat ==
    /\ pc = "idle"
    /\ fmtOut.flat = ""
    /\ fmtOut' = [fmtOut EXCEPT !.flat = format_size(fmtSize)]
    /\ UNCHANGED fmtSize
    /\ UNCHANGED genVars

NextSize == FormatRecursive \/ FormatFlat

SpecSize == InitSize /\ [][NextSize]_vars

(***************************************************************************)
(* What a browser does with a link of a page: the site root is the root of *)
(* the tree, BASE_URL names it, a relative link starts from the directory  *)
(* of the page, and %XX escapes are decoded.                               *)
(***************************************************************************)
Chr(code) == CHOOSE c \in DOMAIN OrdTable : OrdTable[c] = code
HexVal(c) == PosIn(HEXDIGITS, c) - 1

RECURSIVE Unquote(_)
Unquote(s) ==
    IF Len(s) = 0 THEN ""
    ELSE IF CharAt(s, 1) = "%" /\ Len(s) >= 3
         THEN Chr(16 * HexVal(CharAt(s, 2)) + HexVal(CharAt(s, 3)))
              \o Unquote(SubSeq(s, 4, Len(s)))
         ELSE CharAt(s, 1) \o Unquote(SubSeq(s, 2, Len(s)))

RECURSIVE WalkSegments(_, _)
WalkSegments(segs, at) ==
    IF Len(segs) = 0 THEN at
    ELSE IF segs[1] \in {".", ""} THEN WalkSegments(Tail(segs), at)
    ELSE IF segs[1] = ".."
         THEN WalkSegments(Tail(segs), SubSeq(at, 1, Len(at) - 1))
         ELSE WalkSegments(Tail(segs), Append(at, Unquote(segs[1])))

\* The tree path a link denotes when it stands on a page of directory pageDir.
LinkTarget(pageDir, href) ==
    IF StartsWith(href, BASE_URL \o "/")
    THEN WalkSegments(Split(SubSeq(href, Len(BASE_URL) + 2, Len(href)), "/"), <<>>)
    ELSE WalkSegments(Split(href, "/"), pageDir)

\* The pages of this run that list the files of one directory.
DirectoryPagePaths ==
    {path \in DOMAIN pages : pages[path].kind \in {"dir", "module"}}

\* The names a page lists, in the order of the page.
ListedNames(page) == [i \in DOMAIN page.files |-> page.files[i].name]

(***************************************************************************)
(* C1. A run of the recursive generator in which no filesystem operation   *)
(* fails never terminates abnormally, whatever the file sizes, and when it *)
(* has terminated it has written the root page and the page of every       *)
(* scanned directory that has a scanned file or sub-directory. (No         *)
(* filesystem operation fails in this model, so a crash is a crash the     *)
(* claim excludes.)                                                        *)
(***************************************************************************)
C1_RunCompletes ==
    variant = "recursive" =>
        /\ pc # "crashed"
        /\ pc = "done" =>
              /\ <<"index.html">> \in DOMAIN pages
              /\ \A d \in scanDirs :
                    (\/ \E i \in DOMAIN scanFiles : Parent(scanFiles[i].path) = d
                     \/ \E e \in scanDirs : Parent(e) = d)
                    => Append(SubSeq(d, Len(rootDir) + 1, Len(d)), "index.html")
                          \in DOMAIN pages

(***************************************************************************)
(* C2. When the flat generator has run again on the tree its previous run  *)
(* left, every page of the second run is a page of the first with the      *)
(* same resources listed and the same counts, and the main page reports    *)
(* the same totals. (The order of the resources is left to C8.)            *)
(***************************************************************************)
SamePageContent(p, q) ==
    /\ p.kind = q.kind
    /\ p.total = q.total
    /\ p.html = q.html
    /\ {p.files[i].name : i \in DOMAIN p.files} = {q.files[i].name : i \in DOMAIN q.files}
    /\ Len(p.files) = Len(q.files)

C2_SecondRunIdentical ==
    (variant = "flat" /\ run > 1 /\ pc = "done") =>
        /\ DOMAIN pages = DOMAIN prevPages
        /\ \A path \in DOMAIN pages : SamePageContent(pages[path], prevPages[path])

(***************************************************************************)
(* C3. Every file link of a per-directory page, followed from the page,    *)
(* arrives at the listed file: the file of that name in the directory of   *)
(* the page.                                                               *)
(***************************************************************************)
C3_FileLinksResolve ==
    \A path \in DirectoryPagePaths :
        \A i \in DOMAIN pages[path].files :
            LinkTarget(Parent(path), pages[path].files[i].href)
                = Append(Parent(path), pages[path].files[i].name)

(***************************************************************************)
(* C4. When a run is over, every link to a directory index that one of its *)
(* pages holds (sub-directory entries, module cards) arrives at an         *)
(* index.html this run has written.                                        *)
(***************************************************************************)
C4_IndexLinksGenerated ==
    pc = "done" =>
        \A path \in DOMAIN pages :
            \A i \in DOMAIN pages[path].subdirs :
                LinkTarget(Parent(path), pages[path].subdirs[i].href) \in DOMAIN pages

(***************************************************************************)
(* C5. Recursive scan, exclusion: no FileInfo of the scanner has a path    *)
(* part in IGNORE_DIRS, a name in IGNORE_FILES or the name index.html; no  *)
(* scanned directory has a path part in IGNORE_DIRS; and no page is        *)
(* written inside a directory that has such a part.                        *)
(***************************************************************************)
C5_ScanExcludes ==
    variant = "recursive" =>
        /\ \A i \in DOMAIN scanFiles :
              /\ Parts(scanFiles[i].path) \cap IGNORE_DIRS = {}
              /\ scanFiles[i].name \notin IGNORE_FILES
              /\ scanFiles[i].name # "index.html"
        /\ \A d \in scanDirs : Parts(d) \cap IGNORE_DIRS = {}
        /\ \A path \in DOMAIN pages : Parts(Parent(path)) \cap IGNORE_DIRS = {}

\* A completed run over a tree that holds .git/config, an existing
\* index.html, and a file that is recorded.
C5_Witness ==
    /\ variant = "recursive"
    /\ pc = "done"
    /\ <<".git", "config">> \in DOMAIN fsFiles
    /\ Len(scanFiles) > 0
    /\ <<"Module 0", "index.html">> \in DOMAIN pages

(***************************************************************************)
(* C6. Recursive scan, completeness: once the scan is over, every regular  *)
(* file of the tree that none of the three rules skips (a part of its path *)
(* in IGNORE_DIRS, its name in IGNORE_FILES, its name index.html) has      *)
(* exactly one FileInfo, and every directory without a part in IGNORE_DIRS *)
(* is in scanner.directories. The path is the one the scan tests: the      *)
(* absolute path of the entry.                                              *)
(***************************************************************************)
C6_Skipped(p) ==
    \/ \E i \in DOMAIN (rootDir \o p) : (rootDir \o p)[i] \in IGNORE_DIRS
    \/ BaseName(p) \in IGNORE_FILES
    \/ BaseName(p) = "index.html"

C7_ListsSortedCaseInsensitive ==
    \A path \in DOMAIN pages :
        \A i, j \in DOMAIN pages[path].files :
            i < j => ~StrLess(StrLower(pages[path].files[j].name),
                              StrLower(pages[path].files[i].name))

(***************************************************************************)
(* C8. Two runs over the same files list them in the same order: when a    *)
(* page of a directory is written by a run and by the run before it, and   *)
(* both list the same names, they list them in the same order, whatever    *)
(* order the filesystem gave the entries in.                               *)
(***************************************************************************)
C8_SameOrder ==
    (run > 1 /\ pc = "done") =>
        \A path \in DirectoryPagePaths \cap DOMAIN prevPages :
            (/\ Len(pages[path].files) = Len(prevPages[path].files)
             /\ {pages[path].files[i].name : i \in DOMAIN pages[path].files}
                  = {prevPages[path].files[i].name : i \in DOMAIN prevPages[path].files})
            => ListedNames(pages[path]) = ListedNames(prevPages[path])

(***************************************************************************)
(* C9. When a run is over, the total of the root page is the sum of the    *)
(* file counts of the pages of the directories.                            *)
(***************************************************************************)
RECURSIVE SumTotals(_)
SumTotals(paths) ==
    IF paths = {} THEN 0
    ELSE LET path == CHOOSE x \in paths : TRUE
         IN  pages[path].total + SumTotals(paths \ {path})

C9_RootTotalIsSum ==
    pc = "done" => pages[<<"index.html">>].total = SumTotals(DirectoryPagePaths)

(***************************************************************************)
(* C9, amended. When a run is over, the total of the root page is the      *)
(* number of scanned files that lie directly in the root plus the sum of   *)
(* the file counts of the pages of the directories. (The flat generator    *)
(* scans no file of the root: its total is the sum over the modules.)      *)
(***************************************************************************)
RootLevelFiles ==
    Cardinality({i \in DOMAIN scanFiles : Len(scanFiles[i].relative_path) = 1})

C9_RootTotalIsSumPlusRootFiles ==
    pc = "done" =>
        pages[<<"index.html">>].total = RootLevelFiles + SumTotals(DirectoryPagePaths)

\* A completed recursive run with a file in the root and a file in a
\* directory.
C9_Witness ==
    /\ variant = "recursive"
    /\ pc = "done"
    /\ RootLevelFiles > 0
    /\ \E path \in DirectoryPagePaths : pages[path].total > 0

(***************************************************************************)
(* C10. Both format_size implementations choose the unit by the base-1024  *)
(* thresholds over B, KB, MB, GB, TB: B below 1024, KB below 1024^2, MB    *)
(* below 1024^3, GB below 1024^4, TB from 1024^4 on.                       *)
(***************************************************************************)
UnitOf(text) == SubSeq(text, Index(text, " ") + 1, Len(text))

ThresholdUnit(d) ==
    IF \A i \in 2..Len(d) : d[i] = 0 THEN "B"
    ELSE IF \A i \in 3..Len(d) : d[i] = 0 THEN "KB"
    ELSE IF \A i \in 4..Len(d) : d[i] = 0 THEN "MB"
    ELSE IF \A i \in 5..Len(d) : d[i] = 0 THEN "GB"
    ELSE "TB"

C10_UnitByThresholds ==
    /\ fmtOut.recursive # "" => UnitOf(fmtOut.recursive) = ThresholdUnit(fmtSize)
    /\ fmtOut.flat # "" => UnitOf(fmtOut.flat) = ThresholdUnit(fmtSize)

(***************************************************************************)
(* C11. For a size below 1024 both format_size implementations give the    *)
(* byte count as an integer followed by " B", with no decimal part; for a  *)
(* size of 1024 or more they give a number with exactly one decimal place. *)
(***************************************************************************)
NumberOf(text) == SubSeq(text, 1, Index(text, " ") - 1)

IsDigits(s) == Len(s) > 0 /\ \A i \in 1..Len(s) : CharAt(s, i) \in CharsOf(DIGITS)

HasOneDecimal(n) ==
    /\ Len(n) >= 3
    /\ CharAt(n, Len(n) - 1) = "."
    /\ IsDigits(SubSeq(n, 1, Len(n) - 2))
    /\ IsDigits(SubSeq(n, Len(n), Len(n)))

C11_Rendering(text) ==
    IF \A i \in 2..Len(fmtSize) : fmtSize[i] = 0
    THEN text = IntToStr(fmtSize[1]) \o " B"
    ELSE HasOneDecimal(NumberOf(text))

C11_DecimalsByMagnitude ==
    /\ fmtOut.recursive # "" => C11_Rendering(fmtOut.recursive)
    /\ fmtOut.flat # "" => C11_Rendering(fmtOut.flat)

(***************************************************************************)
(* C12. Every FileInfo, whatever its extension, has among its tags every   *)
(* tag of the vocabulary that is a substring of its lower-cased name or of *)
(* its lower-cased root-relative path; the FileInfo of a file that is not  *)
(* HTML (.html, .htm) has exactly those tags.                              *)
(***************************************************************************)
TagsOfNameAndPath(name, path) ==
    UNION {{tag \in COUPLE_TAGS : Contains(lowerName, tag) \/ Contains(lowerPath, tag)} :
              lowerName \in {StrLower(name)}, lowerPath \in {StrLower(path)}}

\* The expected tags of the files of the trees, by path.
ExpectedTags ==
    [p \in TreeFiles \cup InfoFiles |-> TagsOfNameAndPath(p[Len(p)], Join(p, "/"))] @@ <<>>

NameAndPathTags(f) ==
    IF f.relative_path \in DOMAIN ExpectedTags
       /\ f.name = f.relative_path[Len(f.relative_path)]
    THEN ExpectedTags[f.relative_path]
    ELSE TagsOfNameAndPath(f.name, Join(f.relative_path, "/"))

C12_NameAndPathTags ==
    \A i \in DOMAIN scanFiles :
        /\ scanFiles[i].relative_path \in DOMAIN fsFiles
        /\ scanFiles[i].name = scanFiles[i].relative_path[Len(scanFiles[i].relative_path)]
        /\ \A expected \in {NameAndPathTags(scanFiles[i])} :
              /\ expected \subseteq scanFiles[i].tags
              /\ scanFiles[i].extension \notin {".html", ".htm"}
                    => scanFiles[i].tags = expected

\* Module-10/Couple.xyz is recorded with the tags of its name and of its
\* path, module-1 among them.
C12_Witness ==
    \E i \in DOMAIN scanFiles :
        /\ scanFiles[i].relative_path = <<"Module-10", "Couple.xyz">>
        /\ scanFiles[i].tags = {"couple", "module-1", "module-10"}

(***************************************************************************)
(* C13. In every state of a run, every tag of every FileInfo is a member   *)
(* of COUPLE_TAGS: of the entries of a keywords meta tag, split on commas, *)
(* stripped and lower-cased, only those of the vocabulary are tags.        *)
(***************************************************************************)
C13_TagsInVocabulary ==
    \A i \in DOMAIN scanFiles :
        /\ scanFiles[i].tags \subseteq COUPLE_TAGS
        /\ LET p == scanFiles[i].relative_path
           IN  (p \in DOMAIN docs /\ docs[p].readable /\ Len(docs[p].keywords) = 1) =>
                  \A tag \in {"sommeil", "enfants"} :
                      Contains(StrLower(docs[p].keywords[1]), tag)
                          => tag \in scanFiles[i].tags

\* An HTML file whose keywords are "Sommeil, amour ,ENFANTS" is recorded
\* with sommeil and enfants and without amour.
C13_Witness ==
    \E i \in DOMAIN scanFiles :
        LET p == scanFiles[i].relative_path
        IN  /\ p \in DOMAIN docs
            /\ docs[p].readable
            /\ docs[p].keywords = <<"Sommeil, amour ,ENFANTS">>
            /\ {"sommeil", "enfants"} \subseteq scanFiles[i].tags
            /\ "amour" \notin scanFiles[i].tags

(***************************************************************************)
(* C14. The preview of an HTML file that is read and parsed: the text of   *)
(* the title element when the document has one; the meta description,      *)
(* truncated to 200 characters, only when it has no title element; empty   *)
(* with neither. The preview of a file that is not HTML is empty. (Text is *)
(* taken without the white space around it.)                               *)
(***************************************************************************)
IsHtmlRecord(f) == f.extension \in {".html", ".htm"}

DescriptionPreview(doc) ==
    IF Len(doc.description) = 1
    THEN LET text == Strip(doc.description[1])
         IN  IF Len(text) > 200 THEN SubSeq(text, 1, 200) ELSE text
    ELSE ""

C14_PreviewTitleElementFirst ==
    \A i \in DOMAIN scanFiles :
        LET f == scanFiles[i]
        IN  IF ~IsHtmlRecord(f) THEN f.content_preview = ""
            ELSE docs[f.relative_path].readable =>
                   f.content_preview =
                       IF Len(docs[f.relative_path].title) = 1
                       THEN Strip(docs[f.relative_path].title[1])
                       ELSE DescriptionPreview(docs[f.relative_path])

(***************************************************************************)
(* C14, amended. The preview of an HTML file that is read and parsed: the  *)
(* text of the title element, stripped, when the document has a title      *)
(* element and that text is not empty; otherwise (no title element, or a   *)
(* blank one) the meta description, stripped and then truncated to 200     *)
(* characters; empty with neither. The preview of a file that is not HTML  *)
(* is empty.                                                               *)
(***************************************************************************)
C14_PreviewNonBlankTitleFirst ==
    \A i \in DOMAIN scanFiles :
        LET f == scanFiles[i]
        IN  IF ~IsHtmlRecord(f) THEN f.content_preview = ""
            ELSE docs[f.relative_path].readable =>
                   f.content_preview =
                       IF /\ Len(docs[f.relative_path].title) = 1
                          /\ Strip(docs[f.relative_path].title[1]) # ""
                       THEN Strip(docs[f.relative_path].title[1])
                       ELSE DescriptionPreview(docs[f.relative_path])

\* An HTML file with a blank title element and a description of more than
\* 200 characters is recorded with the first 200 characters of the stripped
\* description.
C14_Witness ==
    \E i \in DOMAIN scanFiles :
        LET f == scanFiles[i]
        IN  /\ IsHtmlRecord(f)
            /\ docs[f.relative_path].readable
            /\ docs[f.relative_path].title = <<"  ">>
            /\ Len(Strip(docs[f.relative_path].description[1])) > 200
            /\ Len(f.content_preview) = 200
            /\ SubSeq(f.content_preview, 1, 3) = "012"

(***************************************************************************)
(* C15. When reading or parsing the content of an HTML file raises, the    *)
(* run does not end there: once the scan is over the file has its          *)
(* FileInfo, with an empty preview and the tags of its name and path only, *)
(* and the entries the scan met after it have theirs. (A run in which no   *)
(* file disappears; every file of these trees is empty, so the root page   *)
(* is written.)                                                            *)
(***************************************************************************)
C15_UnreadableHtmlDegrades ==
    (variant = "recursive" /\ vanish = <<>>) =>
        /\ pc # "crashed"
        /\ pc # "scan" =>
              \A p \in DOMAIN fsFiles :
                  ~C6_Skipped(p) =>
                      \E i \in DOMAIN scanFiles :
                          /\ scanFiles[i].relative_path = p
                          /\ (p \in DOMAIN docs /\ ~docs[p].readable) =>
                                /\ scanFiles[i].content_preview = ""
                                /\ scanFiles[i].tags = NameAndPathTags(scanFiles[i])

\* A completed run in which exercice-communication.html could not be read:
\* it is recorded with the two tags of its name, although its text holds
\* others, and a file scanned after it is recorded too.
C15_Witness ==
    /\ variant = "recursive"
    /\ pc = "done"
    /\ \E i, j \in DOMAIN scanFiles :
          /\ i < j
          /\ scanFiles[i].relative_path = <<"Module 1", "exercice-communication.html">>
          /\ ~docs[scanFiles[i].relative_path].readable
          /\ scanFiles[i].tags = {"exercice", "communication"}
          /\ scanFiles[i].content_preview = ""

(***************************************************************************)
(* C16. A file of the listing whose stat fails (it has disappeared since   *)
(* it was listed) is never passed over in silence: no record is made for   *)
(* it, and the run does not complete; it ends with the error, and writes   *)
(* no page after it.                                                       *)
(***************************************************************************)
\* The files a scan makes a record of: recursive, those no rule skips; flat,
\* the files directly in a module directory that the name test keeps.
IsIndexed(p) ==
    IF variant = "recursive" THEN ~C6_Skipped(p)
    ELSE /\ Len(p) = 2
         /\ \E i \in DOMAIN MODULES : MODULES[i] = p[1]
         /\ ~StartsWith(p[2], ".")
         /\ p[2] # "__pycache__"

FlatRecordNames(module_name) ==
    IF module_name \in DOMAIN modulesData
    THEN {modulesData[module_name].files[i].name :
             i \in DOMAIN modulesData[module_name].files}
    ELSE {}

HasRecord(p) ==
    IF variant = "recursive"
    THEN \E i \in DOMAIN scanFiles : scanFiles[i].relative_path = p
    ELSE Len(p) = 2 /\ p[2] \in FlatRecordNames(p[1])

MappedExtensions ==
    UNION {CATEGORY_EXTENSIONS[category] : category \in DOMAIN CATEGORY_EXTENSIONS}

FlatRecords ==
    UNION {{modulesData[m].files[i] : i \in DOMAIN modulesData[m].files} :
              m \in DOMAIN modulesData}

C17_ClassificationTotal ==
    /\ vanish = <<>> => pc # "crashed"
    /\ \A i \in DOMAIN scanFiles :
          \A dct \in {FileInfo_to_dict(scanFiles[i])} :
              /\ scanFiles[i].category # ""
              /\ dct.icon # ""
              /\ scanFiles[i].extension \notin MappedExtensions =>
                    /\ scanFiles[i].category = "other"
                    /\ dct.category = "other"
                    /\ dct.icon = "folder"
    /\ \A f \in FlatRecords :
          /\ f.icon # ""
          /\ f.category # ""
          /\ f.label # ""
          /\ f.extension \notin DOMAIN FLAT_CATEGORIES =>
                (f.icon = "page" /\ f.category = "other" /\ f.label = "Fichier")

\* The flat generator has recorded a file without extension and one with a
\* mapped extension.
C17_Witness ==
    /\ variant = "flat"
    /\ pc = "done"
    /\ \E f, g \in FlatRecords :
          /\ f.name = "notes" /\ f.extension = "" /\ f.category = "other"
          /\ g.name = "Photo.JPG" /\ g.extension = ".jpg"

(***************************************************************************)
(* C18. The category of every record of either generator is one of quiz,   *)
(* web, image, document, data, other, and two records with the same        *)
(* lower-cased extension have the same category.                           *)
(***************************************************************************)
CategorySet == {"quiz", "web", "image", "document", "data", "other"}

C18_CategoryClosedSet ==
    /\ \A i \in DOMAIN scanFiles : scanFiles[i].category \in CategorySet
    /\ \A f \in FlatRecords : f.category \in CategorySet
    /\ \A i, j \in DOMAIN scanFiles :
          scanFiles[i].extension = scanFiles[j].extension
              => scanFiles[i].category = scanFiles[j].category
    /\ \A f, g \in FlatRecords :
          f.extension = g.extension => f.category = g.category

(***************************************************************************)
(* C19. Recursive generator: the step of generate_all for a directory d    *)
(* writes d/index.html if and only if d has a scanned file or a scanned    *)
(* sub-directory; for a directory with neither it writes nothing, and      *)
(* every file of the tree, an index.html already in d included, is as it   *)
(* was.                                                                    *)
(***************************************************************************)
HasScannedContent(d) ==
    \/ \E i \in DOMAIN scanFiles :
          scanFiles[i].path = Append(d, scanFiles[i].name)
    \/ \E e \in scanDirs : Len(e) = Len(d) + 1 /\ SubSeq(e, 1, Len(d)) = d

IndexPathOf(d) == Append(SubSeq(d, Len(rootDir) + 1, Len(d)), "index.html")

C19_DirectoryStep ==
    (variant = "recursive" /\ pc = "dir_index" /\ dirsLeft' # dirsLeft) =>
        \A d \in dirsLeft \ dirsLeft' :
            IF HasScannedContent(d)
            THEN /\ writes' = Append(writes, IndexPathOf(d))
                 /\ IndexPathOf(d) \in DOMAIN pages'
                 /\ IndexPathOf(d) \in DOMAIN fsFiles'
            ELSE /\ writes' = writes
                 /\ pages' = pages
                 /\ fsFiles' = fsFiles

C19_WritesIffContent == [][C19_DirectoryStep]_vars

\* A completed run over a tree in which Module 0 holds nothing but an
\* index.html of 0 bytes: that file is still of 0 bytes and is no page of
\* the run, while the page of Module 1, which holds a file, is written.
C19_Witness ==
    /\ variant = "recursive"
    /\ pc = "done"
    /\ (rootDir \o <<"Module 0">>) \in scanDirs
    /\ <<"Module 0", "index.html">> \in DOMAIN fsFiles
    /\ fsFiles[<<"Module 0", "index.html">>] = 0
    /\ <<"Module 0", "index.html">> \notin DOMAIN pages
    /\ <<"Module 1", "index.html">> \in DOMAIN pages

(***************************************************************************)
(* C20. Flat generator: a module whose directory does not exist does not   *)
(* stop the run; when the run is over the module has an empty list in      *)
(* all_modules_data, no index.html has been written for it, no directory   *)
(* has been created for it, every module has been processed and the root   *)
(* page is written.                                                        *)
(***************************************************************************)
C20_MissingModuleSkipped ==
    (variant = "flat" /\ vanish = <<>>) =>
        /\ pc # "crashed"
        /\ \A f \in DOMAIN fsFiles : Len(f) > 1 => SubSeq(f, 1, Len(f) - 1) \in fsDirs
        /\ \A i \in DOMAIN MODULES :
              (<<MODULES[i]>> \notin fsDirs /\ (i < modIdx \/ pc = "done")) =>
                  /\ MODULES[i] \in DOMAIN modulesData
                  /\ modulesData[MODULES[i]].files = <<>>
                  /\ <<MODULES[i], "index.html">> \notin DOMAIN pages
                  /\ <<MODULES[i], "index.html">> \notin DOMAIN fsFiles
        /\ pc = "done" =>
              /\ DOMAIN modulesData = {MODULES[i] : i \in DOMAIN MODULES}
              /\ <<"index.html">> \in DOMAIN pages

\* A completed run over a tree with Module 1 and without Module 0: the page
\* of Module 1 and the root page are written.
C20_Witness ==
    /\ variant = "flat"
    /\ pc = "done"
    /\ <<"Module 0">> \notin fsDirs
    /\ <<"Module 1">> \in fsDirs
    /\ Len(modulesData["Module 1"].files) > 0
    /\ <<"Module 1", "index.html">> \in DOMAIN pages
    /\ <<"index.html">> \in DOMAIN pages

(***************************************************************************)
(* C21. In each variant a run first scans and only then writes: a step     *)
(* that reads the tree for the scan (an entry of rglob, the listing and    *)
(* the stats of a module) is taken while the run has written no page yet,  *)
(* and no path is written twice in one run.                                *)
(***************************************************************************)
\* The step reads the tree for the scan.
ScanReads ==
    /\ run' = run
    /\ \/ todo' # todo
       \/ modIdx' # modIdx
       \/ modulesData' # modulesData

NoDuplicate(paths) ==
    \A i, j \in DOMAIN paths : paths[i] = paths[j] => i = j

C21_ScanStep ==
    /\ ScanReads => writes = <<>>
    /\ NoDuplicate(writes')

C21_ScanThenWrite == [][C21_ScanStep]_vars

(***************************************************************************)
(* C22. Frame: a step of a run creates or replaces nothing but the file it *)
(* writes, which is named index.html and lies at the root or directly in a *)
(* directory of the tree that the scan recorded (recursive) or that is a   *)
(* configured module (flat); every other file keeps its content, no file   *)
(* disappears and the directories of the tree stay the same.               *)
(***************************************************************************)
\* The path the step writes, if it writes one.
WrittenByStep ==
    IF Len(writes') > Len(writes) THEN {writes'[Len(writes')]} ELSE {}

IndexTarget(path) ==
    /\ BaseName(path) = "index.html"
    /\ \/ Parent(path) = <<>>
       \/ /\ variant = "recursive"
          /\ Parent(path) \in fsDirs
          /\ (rootDir \o Parent(path)) \in scanDirs
       \/ /\ variant = "flat"
          /\ Parent(path) \in fsDirs
          /\ \E i \in DOMAIN MODULES : Parent(path) = <<MODULES[i]>>

C22_FrameStep ==
    run' = run =>
        /\ fsDirs' = fsDirs
        /\ Len(writes') <= Len(writes) + 1
        /\ \A path \in WrittenByStep : IndexTarget(path)
        /\ DOMAIN fsFiles' = DOMAIN fsFiles \cup WrittenByStep
        /\ \A f \in DOMAIN fsFiles \ WrittenByStep : fsFiles'[f] = fsFiles[f]

C22_Frame == [][C22_FrameStep]_vars

\* A completed run that has written the root page and the page of Module 0
\* over a tree that holds another file, of 0 bytes before and after.
C22_Witness ==
    /\ pc = "done"
    /\ <<"index.html">> \in DOMAIN pages
    /\ <<"Module 0", "index.html">> \in DOMAIN pages
    /\ \E f \in DOMAIN fsFiles : BaseName(f) # "index.html" /\ fsFiles[f] = 0

(***************************************************************************)
(* C23. Flat scan: the iteration of main for a module stores one record    *)
(* for each regular file directly in the module directory whose name       *)
(* neither starts with '.' nor is '__pycache__', and no other record: none *)
(* for a sub-directory, none for a file deeper than one level; and only    *)
(* the modules of MODULES are ever scanned.                                *)
(***************************************************************************)
\* The files the scan of module m has to record, in the tree as it is.
ModuleChildren(m) ==
    {e \in Children(<<m>>) :
        /\ e \in DOMAIN fsFiles
        /\ ~StartsWith(BaseName(e), ".")
        /\ BaseName(e) # "__pycache__"}

C23_ScanStep ==
    (variant = "flat" /\ run' = run /\ modulesData' # modulesData) =>
        \E i \in DOMAIN MODULES :
            /\ DOMAIN modulesData' = DOMAIN modulesData \cup {MODULES[i]}
            /\ \A m \in DOMAIN modulesData : modulesData'[m] = modulesData[m]
            /\ \A files \in {modulesData'[MODULES[i]].files} :
                  /\ Len(files) = Cardinality(ModuleChildren(MODULES[i]))
                  /\ {FlatTreePath(files[k].path) : k \in DOMAIN files}
                        = ModuleChildren(MODULES[i])
                  /\ \A k \in DOMAIN files :
                        files[k].name = BaseName(FlatTreePath(files[k].path))

C23_FlatScanImmediateFiles == [][C23_ScanStep]_vars

\* The scan of Module 0 has stored one record, a.pdf, while Module 0 holds
\* a hidden file and a sub-directory as well.
C23_Witness ==
    /\ variant = "flat"
    /\ "Module 0" \in DOMAIN modulesData
    /\ Len(modulesData["Module 0"].files) = 1
    /\ modulesData["Module 0"].files[1].name = "a.pdf"
    /\ <<"Module 0", "sub">> \in fsDirs
    /\ <<"Module 0", ".DS_Store">> \in DOMAIN fsFiles

(***************************************************************************)
(* C24. Whatever the size, the number format_size displays in B, KB or MB  *)
(* is below 1024, also for a size just under a unit boundary that rounds   *)
(* up at one decimal place (1048575 bytes); and the displayed pair of unit *)
(* and number does not decrease when the size grows by one byte.           *)
(***************************************************************************)
RECURSIVE StrToInt(_)
StrToInt(s) ==
    IF Len(s) = 0 THEN 0
    ELSE 10 * StrToInt(SubSeq(s, 1, Len(s) - 1)) + (PosIn(DIGITS, CharAt(s, Len(s))) - 1)

\* The displayed number, in tenths.
Tenths(text) ==
    CHOOSE t \in {IF Index(n, ".") = 0 THEN 10 * StrToInt(n)
                  ELSE 10 * StrToInt(SubSeq(n, 1, Index(n, ".") - 1))
                       + StrToInt(SubSeq(n, Index(n, ".") + 1, Len(n))) :
                     n \in {NumberOf(text)}} : TRUE

UnitRank(unit) ==
    CASE unit = "B" -> 0 [] unit = "KB" -> 1 [] unit = "MB" -> 2
      [] unit = "GB" -> 3 [] unit = "TB" -> 4

\* The size plus one byte; the largest size of the model stays as it is.
RECURSIVE PlusOne(_)
PlusOne(d) ==
    IF Len(d) = 0 THEN <<>>
    ELSE IF d[1] < 1023 THEN <<d[1] + 1>> \o Tail(d)
    ELSE <<0>> \o PlusOne(Tail(d))

NextSizeOf(d) == IF \A i \in DOMAIN d : d[i] = 1023 THEN d ELSE PlusOne(d)

DisplayedBelow1024(text) ==
    UnitOf(text) \in {"B", "KB", "MB"} => Tenths(text) < 10240

NotAbove(text, later) ==
    \/ UnitRank(UnitOf(text)) < UnitRank(UnitOf(later))
    \/ /\ UnitOf(text) = UnitOf(later)
       /\ Tenths(text) <= Tenths(later)

C24_DisplayedBelow1024Monotonic ==
    /\ fmtOut.recursive # "" =>
          /\ DisplayedBelow1024(fmtOut.recursive)
          /\ NotAbove(fmtOut.recursive, FileInfo_format_size(NextSizeOf(fmtSize)))
    /\ fmtOut.flat # "" =>
          /\ DisplayedBelow1024(fmtOut.flat)
          /\ NotAbove(fmtOut.flat, format_size(NextSizeOf(fmtSize)))

(***************************************************************************)
(* C25. The result of the recursive scan depends on the tree below the     *)
(* root alone: once the scan is over, the root-relative paths of the       *)
(* FileInfo and the root-relative scanned directories are those the three  *)
(* rules leave when applied to the root-relative path, wherever the root   *)
(* sits (below a directory named node_modules, for instance).              *)
(***************************************************************************)
IgnoredBelowRoot(p) == \E i \in DOMAIN p : p[i] \in IGNORE_DIRS

ScannedRelativeFiles == {scanFiles[i].relative_path : i \in DOMAIN scanFiles}

ScannedRelativeDirs == {SubSeq(d, Len(rootDir) + 1, Len(d)) : d \in scanDirs}

C25_ScanLocationIndependent ==
    (variant = "recursive" /\ pc # "scan") =>
        /\ ScannedRelativeFiles
              = {p \in DOMAIN fsFiles : /\ ~IgnoredBelowRoot(p)
                                        /\ BaseName(p) \notin IGNORE_FILES
                                        /\ BaseName(p) # "index.html"}
        /\ ScannedRelativeDirs = {d \in fsDirs : ~IgnoredBelowRoot(d)}

(***************************************************************************)
(* C26. Recursive generator: once the scan is over, the parent directory   *)
(* of every FileInfo that does not lie directly in the root is a scanned   *)
(* directory, and the file is among get_files_in_directory of that         *)
(* directory and of no other; no file is ever listed on two directory      *)
(* pages, and when the run has ended every such file is listed on exactly  *)
(* one directory page.                                                     *)
(***************************************************************************)
\* The scanned directories whose get_files_in_directory holds the file.
DirectoriesReturning(f) ==
    {d \in scanDirs :
        \E files \in {get_files_in_directory(d)} : \E k \in DOMAIN files : files[k] = f}

\* The directory pages of the run that list the file.
PagesListing(f) ==
    {path \in DOMAIN pages :
        /\ pages[path].kind = "dir"
        /\ \E k \in DOMAIN pages[path].files :
              pages[path].files[k].href = FileInfo_get_url(f, BASE_URL)}

BelowRootFiles == {i \in DOMAIN scanFiles : Len(scanFiles[i].relative_path) > 1}

C26_ParentsScanned ==
    \A i \in BelowRootFiles :
        /\ Parent(scanFiles[i].path) \in scanDirs
        /\ DirectoriesReturning(scanFiles[i]) = {Parent(scanFiles[i].path)}

C26_OnOnePageAtMost ==
    \A i \in BelowRootFiles :
        PagesListing(scanFiles[i]) \subseteq {IndexPathOf(Parent(scanFiles[i].path))}

C26_OnOnePageAtEnd ==
    pc \in {"done", "crashed"} =>
        \A i \in BelowRootFiles : Cardinality(PagesListing(scanFiles[i])) = 1

C26_EachFileOnOnePage ==
    (variant = "recursive" /\ pc # "scan") =>
        /\ C26_ParentsScanned
        /\ C26_OnOnePageAtMost
        /\ C26_OnOnePageAtEnd

====
